---- MODULE Spec2Model ----
(***************************************************************************)
(* Model of the game state machine of rusty-kong                           *)
(* (src/game/rusty_kong/state_machine/mod.rs).                             *)
(*                                                                         *)
(* The scheduler keeps three GameState slots (previous, current, next) in  *)
(* the thread-local STATE and one first_update flag per entry of the       *)
(* STATE_HANDLERS table.  game_state_go queues a target, game_state_init   *)
(* queues Boot and game_state_update either applies the queued transition  *)
(* (leave, enter) or runs the update callback of the current state.        *)
(*                                                                         *)
(* The bodies of the state callbacks (boot_enter, ...) live in other       *)
(* files; a callback is modelled by the sequence of game_state_go calls it *)
(* makes, chosen freely for every invocation.  state_nop makes none.       *)
(***************************************************************************)
EXTENDS Integers, Sequences, FiniteSets

\* ------------------------------------------------------------------ bounds
\* Ordinal of the last GameState variant the model uses (None = 0).
MaxState == 2
\* Most game_state_go calls the callbacks of one game_state_update call make.
MaxReq == 1
\* Saturation of the count of steady-state updates in one residency.
MaxUpdates == 2
\* Saturation of the borrow counter of a first_update cell (every value
\* above 0 makes borrow_mut panic alike).
MaxBorrow == 1

\* --------------------------------------------------------- enum GameState
GameStateNames ==
    <<"None", "Boot", "Attract", "LongIntroduction", "HowHigh",
      "GamePlay", "PlayerDies", "PlayerWins", "KongRetreats">>

GameState == { GameStateNames[i + 1] : i \in 0 .. MaxState }

\* `state as usize`: the discriminant of a variant.
AsUsize(state) ==
    CHOOSE i \in 0 .. (Len(GameStateNames) - 1) : GameStateNames[i + 1] = state

\* lazy_static STATE_HANDLERS: one entry per variant, in ordinal order.  The
\* fn() items are kept as the names of the functions; the first_update cell
\* of each entry is the variable first_update.
HandlerTable ==
    <<
       [enter |-> "state_nop", update |-> "state_nop", leave |-> "state_nop"],
       [enter |-> "boot_enter", update |-> "boot_update", leave |-> "boot_leave"],
       [enter |-> "attract_enter", update |-> "attract_update", leave |-> "attract_leave"],
       [enter |-> "long_intro_enter", update |-> "long_intro_update", leave |-> "long_intro_leave"],
       [enter |-> "how_high_enter", update |-> "how_high_update", leave |-> "how_high_leave"],
       [enter |-> "game_play_enter", update |-> "game_play_update", leave |-> "game_play_leave"],
       [enter |-> "player_dies_enter", update |-> "player_dies_update", leave |-> "player_dies_leave"],
       [enter |-> "player_wins_enter", update |-> "player_wins_update", leave |-> "player_wins_leave"],
       [enter |-> "kong_retreats_enter", update |-> "kong_retreats_update", leave |-> "kong_retreats_leave"]
    >>

\* STATE_HANDLERS[i], for the variants the model uses.
STATE_HANDLERS == [ i \in 0 .. MaxState |-> HandlerTable[i + 1] ]

\* Initial value of every first_update cell.
FirstUpdateInit == [ i \in 0 .. MaxState |-> TRUE ]

\* ------------------------------------------------------------------ state
VARIABLES
    previous,      \* STATE.previous
    current,       \* STATE.current
    next,          \* STATE.next
    first_update,  \* STATE_HANDLERS[i].first_update, by ordinal
    calls,         \* callbacks invoked by the last operation, in order
    op,            \* the last operation: "start", "init", "go", "update"
    request,       \* the latest game_state_go calls: by whom, how many,
                   \* the last target, whether they were consumed, and
                   \* what next held before them
    residencies,   \* the last three residencies: the state and, for the
                   \* present one, the number of steady-state updates, for
                   \* a finished one, 1 if it had an update and 0 if not
    resident,      \* the state whose enter callback was the last one
                   \* invoked ("None" before any), "-" once its leave ran
    other,         \* the thread-local STATE of a second thread, and the
                   \* callbacks its last operation invoked
    thread,        \* the thread that took the last step
    borrow,        \* the borrow counter of the RefCell of each first_update
                   \* cell: 0 unused, -1 mutably borrowed, above 0 shared
    run            \* per thread: its position in game_state_update, the
                   \* cell it works on, the counter value it last read and
                   \* whether its last call found the flag true (and logged)

vars == <<previous, current, next, first_update, calls, op, request, residencies,
          resident, other, thread, borrow, run>>

\* The scheduler state handed through one operation.
St ==
    [ previous |-> previous, current |-> current, next |-> next,
      first_update |-> first_update, calls |-> <<>> ]

\* Sequences of game_state_go targets a callback invocation may issue.
ReqSeqs == UNION { [1 .. n -> GameState] : n \in 0 .. MaxReq }

NoRequest ==
    [by |-> "none", n |-> 0, target |-> "None", applied |-> FALSE,
     replaced |-> "None"]

\* -------------------------------------------------------------- accessors
get_previous_state(s) == s.previous

set_previous_state(s, state) == [s EXCEPT !.previous = state]

get_next_state(s) == s.next

set_next_state(s, state) == [s EXCEPT !.next = state]

get_current_state(s) == s.current

set_current_state(s, state) == [s EXCEPT !.current = state]

game_state_go_immediate(s, state) ==
    [s EXCEPT !.next = state, !.current = state]

game_state_go_ignore_none(s, state) ==
    IF state = "None" THEN s ELSE [s EXCEPT !.next = state]

game_state_go(s, state) == [s EXCEPT !.next = state]

game_state_init_attract(s) == game_state_go(s, "Attract")

game_state_init(s) == game_state_go(s, "Boot")

get_state_handlers_off_by_one(state) == (AsUsize(state) + 1) % (MaxState + 1)

\* The table index of a state's entry.
get_state_handlers(state) == AsUsize(state)

\* --------------------------------------------------------------- callbacks
RECURSIVE GoAll(_, _)
GoAll(s, reqs) ==
    IF reqs = <<>> THEN s
    ELSE GoAll(game_state_go(s, Head(reqs)), Tail(reqs))

\* What an invocation of fn requests: state_nop nothing, any other callback
\* the sequence chosen for it.
Requests(fn, reqs) == IF fn = "state_nop" THEN <<>> ELSE reqs

\* (handlers.slot)(): run the callback fn found in the given slot.
Invoke(s, slot, fn, reqs) ==
    GoAll([s EXCEPT !.calls = Append(@, [slot |-> slot, fn |-> fn])],
          Requests(fn, reqs))

\* ------------------------------------------------------- game_state_update
\* The branch taken when a transition is pending.
TransitionPath_no_reset(s, lr, er) ==
    LET s1 == set_previous_state(s, get_current_state(s))
        previous_handlers == get_state_handlers(get_previous_state(s1))
        s2 == Invoke(s1, "leave", STATE_HANDLERS[previous_handlers].leave, lr)
        s4 == set_current_state(s2, get_next_state(s2))
        s5 == set_next_state(s4, "None")
        current_handlers == get_state_handlers(get_current_state(s5))
    IN  Invoke(s5, "enter", STATE_HANDLERS[current_handlers].enter, er)

TransitionPath_keep_next(s, lr, er) ==
    LET s1 == set_previous_state(s, get_current_state(s))
        previous_handlers == get_state_handlers(get_previous_state(s1))
        s2 == Invoke(s1, "leave", STATE_HANDLERS[previous_handlers].leave, lr)
        s3 == [s2 EXCEPT !.first_update[previous_handlers] = TRUE]
        s4 == set_current_state(s3, get_next_state(s3))
        current_handlers == get_state_handlers(get_current_state(s4))
    IN  Invoke(s4, "enter", STATE_HANDLERS[current_handlers].enter, er)

TransitionPath_no_self(s, lr, er) ==
    IF get_next_state(s) = get_current_state(s)
    THEN set_next_state(s, "None")
    ELSE
    LET s1 == set_previous_state(s, get_current_state(s))
        previous_handlers == get_state_handlers(get_previous_state(s1))
        s2 == Invoke(s1, "leave", STATE_HANDLERS[previous_handlers].leave, lr)
        s3 == [s2 EXCEPT !.first_update[previous_handlers] = TRUE]
        s4 == set_current_state(s3, get_next_state(s3))
        s5 == set_next_state(s4, "None")
        current_handlers == get_state_handlers(get_current_state(s5))
    IN  Invoke(s5, "enter", STATE_HANDLERS[current_handlers].enter, er)

TransitionPath_enter_before_leave(s, lr, er) ==
    LET s1 == set_previous_state(s, get_current_state(s))
        previous_handlers == get_state_handlers(get_previous_state(s1))
        s2 == set_current_state(s1, get_next_state(s1))
        s3 == set_next_state(s2, "None")
        current_handlers == get_state_handlers(get_current_state(s3))
        s4 == Invoke(s3, "enter", STATE_HANDLERS[current_handlers].enter, er)
        s5 == Invoke(s4, "leave", STATE_HANDLERS[previous_handlers].leave, lr)
    IN  [s5 EXCEPT !.first_update[previous_handlers] = TRUE]

TransitionPath_reset_entered(s, lr, er) ==
    LET s1 == set_previous_state(s, get_current_state(s))
        previous_handlers == get_state_handlers(get_previous_state(s1))
        s2 == Invoke(s1, "leave", STATE_HANDLERS[previous_handlers].leave, lr)
        s4 == set_current_state(s2, get_next_state(s2))
        s5 == set_next_state(s4, "None")
        current_handlers == get_state_handlers(get_current_state(s5))
        s6 == [s5 EXCEPT !.first_update[current_handlers] = TRUE]
    IN  Invoke(s6, "enter", STATE_HANDLERS[current_handlers].enter, er)

TransitionPath_leave_stale(s, lr, er) ==
    LET previous_handlers == get_state_handlers(get_previous_state(s))
        s1 == set_previous_state(s, get_current_state(s))
        s2 == Invoke(s1, "leave", STATE_HANDLERS[previous_handlers].leave, lr)
        s3 == [s2 EXCEPT !.first_update[previous_handlers] = TRUE]
        s4 == set_current_state(s3, get_next_state(s3))
        s5 == set_next_state(s4, "None")
        current_handlers == get_state_handlers(get_current_state(s5))
    IN  Invoke(s5, "enter", STATE_HANDLERS[current_handlers].enter, er)

TransitionPath_clear_after_enter(s, lr, er) ==
    LET s1 == set_previous_state(s, get_current_state(s))
        previous_handlers == get_state_handlers(get_previous_state(s1))
        s2 == Invoke(s1, "leave", STATE_HANDLERS[previous_handlers].leave, lr)
        s3 == [s2 EXCEPT !.first_update[previous_handlers] = TRUE]
        s4 == set_current_state(s3, get_next_state(s3))
        current_handlers == get_state_handlers(get_current_state(s4))
        s5 == Invoke(s4, "enter", STATE_HANDLERS[current_handlers].enter, er)
    IN  set_next_state(s5, "None")

TransitionPath(s, lr, er) ==
    LET s1 == set_previous_state(s, get_current_state(s))
        previous_handlers == get_state_handlers(get_previous_state(s1))
        s2 == Invoke(s1, "leave", STATE_HANDLERS[previous_handlers].leave, lr)
        s3 == [s2 EXCEPT !.first_update[previous_handlers] = TRUE]
        s4 == set_current_state(s3, get_next_state(s3))
        s5 == set_next_state(s4, "None")
        current_handlers == get_state_handlers(get_current_state(s5))
    IN  Invoke(s5, "enter", STATE_HANDLERS[current_handlers].enter, er)

\* The branch taken when nothing is pending.
SteadyPath_keep_flag(s, ur) ==
    LET handlers == get_state_handlers(get_current_state(s))
    IN  Invoke(s, "update", STATE_HANDLERS[handlers].update, ur)

SteadyPath_only_first(s, ur) ==
    LET handlers == get_state_handlers(get_current_state(s))
    IN  IF s.first_update[handlers]
        THEN Invoke([s EXCEPT !.first_update[handlers] = FALSE],
                    "update", STATE_HANDLERS[handlers].update, ur)
        ELSE s

SteadyPath(s, ur) ==
    LET handlers == get_state_handlers(get_current_state(s))
        s1 == IF s.first_update[handlers]
              THEN [s EXCEPT !.first_update[handlers] = FALSE]
              ELSE s
    IN  Invoke(s1, "update", STATE_HANDLERS[handlers].update, ur)

game_state_update_fall_through(s, lr, er, ur) ==
    IF get_next_state(s) # "None"
    THEN SteadyPath(TransitionPath(s, lr, er), ur)
    ELSE SteadyPath(s, ur)

game_state_update(s, lr, er, ur) ==
    IF get_next_state(s) # "None"
    THEN TransitionPath(s, lr, er)
    ELSE SteadyPath(s, ur)

\* ----------------------------------------------------------------- actions
Min(a, b) == IF a < b THEN a ELSE b

Last(seq) == seq[Len(seq)]

Commit(r) ==
    /\ previous' = r.previous
    /\ current' = r.current
    /\ next' = r.next
    /\ first_update' = r.first_update
    /\ calls' = r.calls
    /\ thread' = "main"
    /\ UNCHANGED <<other, borrow, run>>

\* The record of a batch of game_state_go calls: the caller, their number,
\* the last target, whether game_state_update has consumed it, and the
\* content of next that the batch overwrote.
Asked(by, reqs, applied, before) ==
    [by |-> by, n |-> Len(reqs), target |-> Last(reqs), applied |-> applied,
     replaced |-> before]

\* The record of a batch once game_state_update has applied its target;
\* what the batch had replaced is no longer kept.
Consumed(req) == [req EXCEPT !.applied = TRUE, !.replaced = "None"]

\* An external call of game_state_go(state).
GameStateGo(state) ==
    /\ Commit(game_state_go(St, state))
    /\ op' = "go"
    /\ request' = Asked("ext", <<state>>, FALSE, next)
    /\ UNCHANGED <<residencies, resident>>

\* A call of game_state_init().
GameStateInit ==
    /\ Commit(game_state_init(St))
    /\ op' = "init"
    /\ request' = Asked("init", <<next'>>, FALSE, next)
    /\ UNCHANGED <<residencies, resident>>

\* The state whose table entry holds the callback fn.
Owner(fn) ==
    CHOOSE state \in GameState :
        LET h == STATE_HANDLERS[AsUsize(state)]
        IN  fn \in {h.enter, h.update, h.leave}

\* The resident state after the callbacks of c ran, res being resident before.
RECURSIVE ResidentAfter(_, _)
ResidentAfter(res, c) ==
    IF c = <<>> THEN res
    ELSE ResidentAfter(IF Head(c).slot = "enter" THEN Owner(Head(c).fn)
                       ELSE IF Head(c).slot = "leave" THEN "-"
                       ELSE res,
                       Tail(c))

\* What the callback in the given slot of a state's entry requests.
RequestsOf(state, slot, reqs) ==
    LET h == STATE_HANDLERS[get_state_handlers(state)]
    IN  Requests(IF slot = "leave" THEN h.leave
                 ELSE IF slot = "enter" THEN h.enter ELSE h.update, reqs)

\* One call of game_state_update(), the callbacks it runs included.
GameStateUpdate(lr, er, ur) ==
    LET r == game_state_update(St, lr, er, ur)
        asked_leave == RequestsOf(current, "leave", lr)
        asked_enter == RequestsOf(r.current, "enter", er)
        asked_update == RequestsOf(current, "update", ur)
    IN
    /\ Commit(r)
    /\ op' = "update"
    /\ resident' = ResidentAfter(resident, r.calls)
    /\ IF next # "None"
       THEN /\ request' =
                 IF asked_enter # <<>>
                 THEN Asked("enter", asked_enter, FALSE, "None")
                 ELSE IF asked_leave # <<>>
                 THEN Asked("leave", asked_leave, TRUE, next)
                 ELSE Consumed(request)
            /\ residencies' =
                 LET kept == IF Len(residencies) = 3
                             THEN Tail(residencies) ELSE residencies
                     closed == [kept EXCEPT ![Len(kept)].n = Min(@, 1)]
                 IN  Append(closed, [st |-> r.current, n |-> 0])
       ELSE /\ request' =
                 IF asked_update # <<>>
                 THEN Asked("update", asked_update, FALSE, next)
                 ELSE request
            /\ residencies' =
                 [residencies EXCEPT ![Len(residencies)].n =
                     Min(@ + 1, MaxUpdates)]

\* RefCell's borrow counter value of a cell nobody borrows.
UNUSED == 0

Threads == {"main", "other"}

\* A thread that is not inside game_state_update.
Idle == [pc |-> "idle", cell |-> 0, seen |-> 0, found |-> FALSE]

Init ==
    /\ previous = "None"
    /\ current = "None"
    /\ next = "None"
    /\ first_update = FirstUpdateInit
    /\ calls = <<>>
    /\ op = "start"
    /\ request = NoRequest
    /\ residencies = <<[st |-> "None", n |-> 0]>>
    /\ resident = "None"
    /\ other = [previous |-> "None", current |-> "None", next |-> "None",
                calls |-> <<>>]
    /\ thread = "main"
    /\ borrow = [i \in 0 .. MaxState |-> UNUSED]
    /\ run = [t \in Threads |-> Idle]

Next ==
    \/ \E state \in GameState : GameStateGo(state)
    \/ GameStateInit
    \/ /\ next # "None"
       /\ \E lr \in ReqSeqs, er \in ReqSeqs :
             /\ Len(lr) + Len(er) <= MaxReq
             /\ GameStateUpdate(lr, er, <<>>)
    \/ /\ next = "None"
       /\ \E ur \in ReqSeqs : GameStateUpdate(<<>>, <<>>, ur)

Spec == Init /\ [][Next]_vars

\* ------------------------------------------------------------ two threads
\* STATE is thread_local, so a second thread has its own previous, current
\* and next.  STATE_HANDLERS is a lazy_static made shareable by `unsafe impl
\* Sync`, so both threads use the same first_update cells, and nothing
\* synchronises them: a call of game_state_update is a sequence of steps,
\* one for every access to a shared cell (the test of a flag and its write
\* included), and the steps of the two threads interleave freely.  The accesses to a RefCell's borrow counter and value
\* are plain reads and writes, so two threads can both find the counter
\* unused and both borrow, and a counter can be left above 0 for good.
\* A call whose borrow_mut finds the counter in use panics and ends there;
\* the thread may go on calling.  Callbacks ask for nothing here.

\* The thread is between two calls (the last one returned or panicked).
Between(t) == run[t].pc \in {"idle", "panicked"}

\* The scheduler state of a thread inside a call of game_state_update.
Running(t) ==
    IF t = "main"
    THEN [ previous |-> previous, current |-> current, next |-> next,
           first_update |-> first_update, calls |-> calls ]
    ELSE [ previous |-> other.previous, current |-> other.current,
           next |-> other.next, first_update |-> first_update,
           calls |-> other.calls ]

\* game_state_update, transition branch, up to borrow_mut: previous is set
\* and the leave callback runs.
TransitionLeave(s) ==
    LET s1 == set_previous_state(s, get_current_state(s))
        previous_handlers == get_state_handlers(get_previous_state(s1))
    IN  Invoke(s1, "leave", STATE_HANDLERS[previous_handlers].leave, <<>>)

\* game_state_update, transition branch, after borrow_mut: the flag of the
\* state left is set, current and next are written, the enter callback runs.
TransitionEnter(s) ==
    LET previous_handlers == get_state_handlers(get_previous_state(s))
        s3 == [s EXCEPT !.first_update[previous_handlers] = TRUE]
        s4 == set_current_state(s3, get_next_state(s3))
        s5 == set_next_state(s4, "None")
        current_handlers == get_state_handlers(get_current_state(s5))
    IN  Invoke(s5, "enter", STATE_HANDLERS[current_handlers].enter, <<>>)

\* game_state_update, steady branch: the test of the flag of the current
\* state.
SteadyRead(s) ==
    LET handlers == get_state_handlers(get_current_state(s))
    IN  s.first_update[handlers]

\* game_state_update, steady branch after the test: the flag is cleared when
\* the test found it true, and the update callback runs.
SteadyWrite(s, found) ==
    LET handlers == get_state_handlers(get_current_state(s))
        s1 == IF found
              THEN [s EXCEPT !.first_update[handlers] = FALSE]
              ELSE s
    IN  Invoke(s1, "update", STATE_HANDLERS[handlers].update, <<>>)

\* RefCell::borrow_mut, first half: the counter is read and must be UNUSED,
\* or the call panics ("already borrowed").
try_borrow_mut(b, cell) == b[cell] = UNUSED

\* RefCell::borrow_mut, second half: the counter is written.
borrow_mut(b, cell) == [b EXCEPT ![cell] = UNUSED - 1]

\* Drop of the RefMut at the end of the block: the counter value read
\* before, plus one, is written back.
drop_ref_mut(b, cell, seen) == [b EXCEPT ![cell] = Min(seen + 1, MaxBorrow)]

\* One step of thread t: its scheduler state, the counters, its position.
ThreadCommit(t, r, b, pos) ==
    /\ IF t = "main"
       THEN /\ previous' = r.previous
            /\ current' = r.current
            /\ next' = r.next
            /\ calls' = r.calls
            /\ UNCHANGED other
       ELSE /\ other' = [previous |-> r.previous, current |-> r.current,
                         next |-> r.next, calls |-> r.calls]
            /\ UNCHANGED <<previous, current, next, calls>>
    /\ first_update' = r.first_update
    /\ borrow' = b
    /\ run' = [run EXCEPT ![t] = pos]
    /\ thread' = t

\* The records kept of the first thread's operations: the operation and the
\* present residency with its count of steady-state updates.  The requests,
\* the earlier residencies and the resident state are not recorded here.
Observed(t, o, res) ==
    /\ IF t = "main"
       THEN op' = o /\ residencies' = res
       ELSE UNCHANGED <<op, residencies>>
    /\ UNCHANGED <<request, resident>>

\* Thread t calls game_state_go(state).
ThreadGo(t, state) ==
    /\ Between(t)
    /\ ThreadCommit(t, game_state_go([Running(t) EXCEPT !.calls = <<>>], state),
                    borrow, run[t])
    /\ Observed(t, "go", residencies)

\* Thread t calls game_state_init().
ThreadInit(t) ==
    /\ Between(t)
    /\ ThreadCommit(t, game_state_init([Running(t) EXCEPT !.calls = <<>>]),
                    borrow, run[t])
    /\ Observed(t, "init", residencies)

\* game_state_update() is called: the branch is chosen from the thread's own
\* next; in the transition branch previous is set and the leave callback
\* runs; then borrow_mut reads the counter of the cell and panics unless it
\* is unused.
BeginUpdate(t) ==
    LET s == [Running(t) EXCEPT !.calls = <<>>]
        transition == get_next_state(s) # "None"
        r == IF transition THEN TransitionLeave(s) ELSE s
        cell == IF transition
                THEN get_state_handlers(get_previous_state(r))
                ELSE get_state_handlers(get_current_state(r))
        pos == IF ~try_borrow_mut(borrow, cell)
               THEN [Idle EXCEPT !.pc = "panicked"]
               ELSE [pc |-> IF transition THEN "transition_borrowing"
                            ELSE "steady_borrowing",
                     cell |-> cell, seen |-> borrow[cell], found |-> FALSE]
    IN  /\ Between(t)
        /\ ThreadCommit(t, r, borrow, pos)
        /\ Observed(t, "update", residencies)

\* borrow_mut writes the counter it found unused.
BorrowMut(t) ==
    /\ run[t].pc \in {"transition_borrowing", "steady_borrowing"}
    /\ ThreadCommit(t, Running(t), borrow_mut(borrow, run[t].cell),
                    [run[t] EXCEPT !.pc = IF @ = "transition_borrowing"
                                          THEN "transition_borrowed"
                                          ELSE "steady_borrowed"])
    /\ Observed(t, op, residencies)

\* Transition branch, holding the RefMut: the rest of the branch.
EnterNext(t) ==
    LET r == TransitionEnter(Running(t))
    IN  /\ run[t].pc = "transition_borrowed"
        /\ ThreadCommit(t, r, borrow, [run[t] EXCEPT !.pc = "dropping"])
        /\ Observed(t, op, <<[st |-> r.current, n |-> 0]>>)

\* Steady branch, holding the RefMut: the flag is read (`if *first_update`).
ReadFlag(t) ==
    /\ run[t].pc = "steady_borrowed"
    /\ ThreadCommit(t, Running(t), borrow,
                    [run[t] EXCEPT !.pc = "steady_read",
                                   !.found = SteadyRead(Running(t))])
    /\ Observed(t, op, residencies)

\* Steady branch, after the test: a call that found the flag true has
\* logged and now clears it; the update callback runs.
UpdateCurrent(t) ==
    LET r == SteadyWrite(Running(t), run[t].found)
    IN  /\ run[t].pc = "steady_read"
        /\ ThreadCommit(t, r, borrow, [run[t] EXCEPT !.pc = "dropping"])
        /\ Observed(t, op, [residencies EXCEPT ![Len(residencies)].n =
                                Min(@ + 1, MaxUpdates)])

\* End of the block: the drop of the RefMut reads the counter ...
DropRead(t) ==
    /\ run[t].pc = "dropping"
    /\ ThreadCommit(t, Running(t), borrow,
                    [run[t] EXCEPT !.pc = "releasing",
                                   !.seen = borrow[run[t].cell]])
    /\ Observed(t, op, residencies)

\* ... and writes it back, one higher; the call returns.
DropWrite(t) ==
    /\ run[t].pc = "releasing"
    /\ ThreadCommit(t, Running(t),
                    drop_ref_mut(borrow, run[t].cell, run[t].seen),
                    [Idle EXCEPT !.found = run[t].found])
    /\ Observed(t, op, residencies)

\* The second thread calls game_state_go(state).
OtherGo(state) == ThreadGo("other", state)

\* The second thread calls game_state_init().
OtherInit == ThreadInit("other")

\* One step of a call of game_state_update() by the second thread.
OtherUpdate ==
    \/ BeginUpdate("other")
    \/ BorrowMut("other")
    \/ EnterNext("other")
    \/ ReadFlag("other")
    \/ UpdateCurrent("other")
    \/ DropRead("other")
    \/ DropWrite("other")

\* Two threads, each driving the scheduler with callbacks that ask for
\* nothing.
NextThreads ==
    \/ \E state \in GameState : ThreadGo("main", state)
    \/ ThreadInit("main")
    \/ \E state \in GameState : OtherGo(state)
    \/ OtherInit
    \/ BeginUpdate("main")
    \/ BorrowMut("main")
    \/ EnterNext("main")
    \/ ReadFlag("main")
    \/ UpdateCurrent("main")
    \/ DropRead("main")
    \/ DropWrite("main")
    \/ OtherUpdate

SpecThreads == Init /\ [][NextThreads]_vars

\* ------------------------------------------------------------ observations
\* The slots of the callbacks the last operation invoked, in order.
Slots(c) == [i \in 1 .. Len(c) |-> c[i].slot]

Count(c, slot) == Cardinality({i \in 1 .. Len(c) : c[i].slot = slot})

\* Steady-state updates run so far in the present residency (saturating).
Updates == Last(residencies).n

\* The first_update cell of the entry of a state.
Flag(f, state) == f[AsUsize(state)]

\* A request is pending: asked for and not yet consumed or overwritten.
Pending(by) == request.by = by /\ ~request.applied

\* ------------------------------------------------------------------ claims

\* C1 (as claimed): when the update callback of the current state asked once
\* for a state X other than None, that call of game_state_update invoked
\* only the update callback, and the next call of game_state_update invokes
\* the leave callback of the current state, then the enter callback of X,
\* and makes X the current state.
C1_DeferredTransitionFromUpdate ==
    [][ /\ (op' = "update" /\ Pending("update")')
            => Slots(calls') = <<"update">>
        /\ (/\ op = "update" /\ Pending("update")
            /\ request.n = 1 /\ request.target # "None"
            /\ op' = "update")
            => /\ calls' =
                    << [slot |-> "leave",
                        fn |-> STATE_HANDLERS[AsUsize(current)].leave],
                       [slot |-> "enter",
                        fn |-> STATE_HANDLERS[AsUsize(request.target)].enter] >>
               /\ previous' = current
               /\ current' = request.target
      ]_vars

\* C2: every call of game_state_update invokes either one leave and then
\* one enter callback and no update callback, or one update callback and no
\* leave or enter callback.
C2_MutualExclusivity ==
    op = "update" =>
        \/ Slots(calls) = <<"leave", "enter">>
        \/ Slots(calls) = <<"update">>

\* A call took the transition path out of a real state and its enter
\* callback asked for a further transition.
C2_Witness ==
    /\ op = "update"
    /\ Slots(calls) = <<"leave", "enter">>
    /\ previous # "None"
    /\ Pending("enter")
    /\ next # "None"

\* C3: a call of game_state_update that applies a transition leaves the
\* first_update flag of the state it entered true; the first steady-state
\* call of a residency finds the flag of the current state true and leaves
\* it false; every later steady-state call of the residency finds it false
\* and leaves it false.
C3_FirstUpdateFlag ==
    [][ op' = "update" =>
          IF next # "None"
          THEN Flag(first_update', current')
          ELSE /\ current' = current
               /\ IF Updates = 0
                  THEN Flag(first_update, current) /\ ~Flag(first_update', current)
                  ELSE ~Flag(first_update, current) /\ ~Flag(first_update', current)
      ]_vars

\* A real state has had its first and a later steady-state update.
C3_Witness ==
    /\ op = "update"
    /\ current # "None"
    /\ Len(residencies) >= 2
    /\ Updates >= 2
    /\ ~Flag(first_update, current)

\* C4: when the last three residencies are A, B, A with B different from A,
\* the update of A ran during the first of them, and no steady-state call
\* has been made yet in the present one, the first_update flag of A is true.
C4_ReentryReset ==
    (/\ Len(residencies) = 3
     /\ residencies[1].st = residencies[3].st
     /\ residencies[2].st # residencies[1].st
     /\ residencies[1].n >= 1
     /\ residencies[3].n = 0)
    => /\ current = residencies[3].st
       /\ Flag(first_update, current)

\* The machine is back in a real state A after A (updated), B.
C4_Witness ==
    /\ Len(residencies) = 3
    /\ residencies[1].st = residencies[3].st
    /\ residencies[2].st \notin {residencies[1].st, "None"}
    /\ residencies[1].n >= 1
    /\ residencies[2].n >= 1
    /\ residencies[3].n = 0
    /\ current = residencies[3].st
    /\ current # "None"
    /\ op = "update"
    /\ Flag(first_update, current)

\* No game_state_go or game_state_init call and no transition has happened.
NothingRequestedYet == Len(residencies) = 1 /\ request.by = "none"

\* C5: as long as neither game_state_init nor game_state_go has been called,
\* every call of game_state_update invokes only state_nop, looks up an entry
\* the table has, and leaves previous, current and next equal to None.
C5_SentinelSafety ==
    NothingRequestedYet =>
        /\ previous = "None" /\ current = "None" /\ next = "None"
        /\ AsUsize(current) \in DOMAIN STATE_HANDLERS
        /\ \/ op = "start" /\ calls = <<>>
           \/ op = "update"
              /\ calls = << [slot |-> "update", fn |-> "state_nop"] >>

\* Several calls of game_state_update were made before anything was asked.
C5_Witness ==
    /\ NothingRequestedYet
    /\ op = "update"
    /\ Updates >= 2
    /\ calls = << [slot |-> "update", fn |-> "state_nop"] >>

\* C6: game_state_init only writes Boot into next and invokes no callback;
\* the call of game_state_update that follows it before any transition
\* invokes state_nop as the leave of None, then boot_enter, nothing else,
\* and ends with current = Boot, previous = None and, when boot_enter asks
\* for nothing, next = None.
C6_BootScenario ==
    [][ /\ op' = "init"
            => /\ next' = "Boot"
               /\ calls' = <<>>
               /\ UNCHANGED <<previous, current, first_update>>
        /\ (op = "init" /\ Len(residencies) = 1 /\ op' = "update")
            => /\ calls' = << [slot |-> "leave", fn |-> "state_nop"],
                              [slot |-> "enter", fn |-> "boot_enter"] >>
               /\ current' = "Boot"
               /\ previous' = "None"
               /\ (~Pending("enter")' => next' = "None")
      ]_vars

\* The first transition, asked for by game_state_init, has been applied.
C6_Witness ==
    /\ op = "update"
    /\ request = [by |-> "init", n |-> 1, target |-> "Boot", applied |-> TRUE,
                  replaced |-> "None"]
    /\ Len(residencies) = 2
    /\ current = "Boot" /\ previous = "None" /\ next = "None"
    /\ calls = << [slot |-> "leave", fn |-> "state_nop"],
                  [slot |-> "enter", fn |-> "boot_enter"] >>

\* C7 (as claimed): a call of game_state_update that applies a transition
\* enters the state that was pending in next when the call began and never
\* consumes a request made by the leave callback it invoked.
C7_LeaveRequestIsQueued ==
    [][ (op' = "update" /\ next # "None")
          => /\ current' = next
             /\ ~(request'.by = "leave" /\ request'.applied)
      ]_vars

\* C8 (as claimed): a request the enter callback made for a state other
\* than None is in next when the call returns, and the following call of
\* game_state_update invokes the leave callback of the state just entered,
\* then the enter callback of the requested state, and makes it current.
C8_EnterRequestApplied ==
    [][ /\ (op' = "update" /\ Pending("enter")')
            => next' = request'.target
        /\ (/\ op = "update" /\ Pending("enter") /\ request.target # "None"
            /\ op' = "update")
            => /\ calls' =
                    << [slot |-> "leave",
                        fn |-> STATE_HANDLERS[AsUsize(current)].leave],
                       [slot |-> "enter",
                        fn |-> STATE_HANDLERS[AsUsize(request.target)].enter] >>
               /\ previous' = current
               /\ current' = request.target
      ]_vars

\* C9: a call of game_state_go writes its argument into next and nothing
\* else.  Called externally it leaves previous, current and the flags as
\* they were and invokes no callback; called by an update or enter callback
\* it makes the call of game_state_update differ only in next from the same
\* call with a callback that asks for nothing.
C9_GoChangesOnlyNext ==
    [][ /\ op' = "go"
            => /\ next' = request'.target
               /\ calls' = <<>>
               /\ UNCHANGED <<previous, current, first_update>>
        /\ (op' = "update" /\ next = "None" /\ Pending("update")')
            => /\ next' = request'.target
               /\ previous' = previous
               /\ current' = current
               /\ first_update' = SteadyPath(St, <<>>).first_update
               /\ calls' = SteadyPath(St, <<>>).calls
        /\ (op' = "update" /\ next # "None" /\ Pending("enter")')
            => /\ next' = request'.target
               /\ previous' = current
               /\ first_update' = TransitionPath(St, <<>>, <<>>).first_update
               /\ Slots(calls') = <<"leave", "enter">>
      ]_vars

\* game_state_go was called externally while a real state was current and
\* had been updated.
C9_Witness ==
    /\ op = "go"
    /\ request.by = "ext"
    /\ next = request.target
    /\ next \notin {"None", current}
    /\ current # "None"
    /\ ~Flag(first_update, current)
    /\ calls = <<>>

\* C10: a call of game_state_update invokes at most one leave and at most
\* one enter callback, and when it applied a transition next is None
\* afterwards unless the enter callback it invoked asked for a transition.
C10_AtMostOneTransition ==
    op = "update" =>
        /\ Count(calls, "leave") <= 1
        /\ Count(calls, "enter") <= 1
        /\ (Count(calls, "enter") = 1 /\ ~Pending("enter")) => next = "None"

\* A transition was applied, the leave callback had asked for a state, and
\* nothing is pending afterwards.
C10_Witness ==
    /\ op = "update"
    /\ Slots(calls) = <<"leave", "enter">>
    /\ request.by = "leave"
    /\ current # "None"
    /\ next = "None"

\* C11: whatever the current state S (None included) and the target T
\* other than None (S included), an external game_state_go(T) followed by a
\* call of game_state_update in which no callback asks for anything invokes
\* the leave callback of S, then the enter callback of T, and ends with
\* previous = S, current = T, next = None and the first_update flag of T
\* true.
C11_AnyTransitionApplied ==
    [][ (/\ op = "go" /\ request.target # "None"
         /\ op' = "update"
         /\ request' = Consumed(request))
          => /\ calls' =
                  << [slot |-> "leave",
                      fn |-> STATE_HANDLERS[AsUsize(current)].leave],
                     [slot |-> "enter",
                      fn |-> STATE_HANDLERS[AsUsize(request.target)].enter] >>
             /\ previous' = current
             /\ current' = request.target
             /\ next' = "None"
             /\ Flag(first_update', request.target)
      ]_vars

\* A transition from a real state to itself, asked for externally after the
\* state had been updated, has been applied.
C11_Witness ==
    /\ op = "update"
    /\ request.by = "ext" /\ request.applied
    /\ previous = current
    /\ current # "None"
    /\ Len(residencies) = 3
    /\ residencies[2].st = current /\ residencies[2].n = 1
    /\ Slots(calls) = <<"leave", "enter">>
    /\ next = "None"
    /\ Flag(first_update, current)

\* C12 (as claimed): no call of game_state_update invokes the enter callback
\* of None, the leave callback of None is invoked by the first applied
\* transition only, and after the first transition current is never None.
C12_NoneNeverTarget ==
    /\ (op = "update" /\ Slots(calls) = <<"leave", "enter">>)
         => /\ calls[2].fn # STATE_HANDLERS[AsUsize("None")].enter
            /\ (calls[1].fn = STATE_HANDLERS[AsUsize("None")].leave
                  => Len(residencies) = 2)
    /\ Len(residencies) >= 2 => current # "None"

\* C13: a call of game_state_update that finds a transition pending invokes
\* first the leave callback of the state that was current before the call,
\* then the enter callback of the state that is current after it, and
\* leaves in previous the state that was current before it.
C13_TransitionOrder ==
    [][ (op' = "update" /\ next # "None")
          => /\ calls' =
                  << [slot |-> "leave",
                      fn |-> STATE_HANDLERS[AsUsize(current)].leave],
                     [slot |-> "enter",
                      fn |-> STATE_HANDLERS[AsUsize(current')].enter] >>
             /\ previous' = current
      ]_vars

\* A transition between two different real states has been applied.
C13_Witness ==
    /\ op = "update"
    /\ previous # "None"
    /\ current \notin {"None", previous}
    /\ calls = << [slot |-> "leave",
                   fn |-> STATE_HANDLERS[AsUsize(previous)].leave],
                  [slot |-> "enter",
                   fn |-> STATE_HANDLERS[AsUsize(current)].enter] >>

\* C14: a call of game_state_update that finds next = None invokes the
\* update callback of the current state once and nothing else, whether the
\* first_update flag of that state is true or false, leaves previous and
\* current as they were, and leaves next = None unless the update callback
\* asked for a state.
C14_UpdateAlwaysRuns ==
    [][ (op' = "update" /\ next = "None")
          => /\ calls' =
                  << [slot |-> "update",
                      fn |-> STATE_HANDLERS[AsUsize(current)].update] >>
             /\ previous' = previous
             /\ current' = current
             /\ next' = IF Pending("update")' THEN request'.target ELSE "None"
      ]_vars

\* The update callback of a real state ran again although the flag of the
\* state was already false.
C14_Witness ==
    /\ op = "update"
    /\ current # "None"
    /\ Updates >= 2
    /\ ~Flag(first_update, current)
    /\ calls = << [slot |-> "update",
                   fn |-> STATE_HANDLERS[AsUsize(current)].update] >>
    /\ next = "None"

\* C16 (as claimed): when game_state_go was called several times before a
\* call of game_state_update (externally on top of a pending state, or
\* several times by one update callback), the last target Tn not being None,
\* that call applies exactly one transition, into Tn: it invokes the leave
\* callback of the current state and the enter callback of Tn and no other
\* callback, and makes Tn the current state.
C16_LastRequestWins ==
    [][ (/\ request.by \in {"ext", "init", "update"}
         /\ ~request.applied
         /\ request.target # "None"
         /\ (request.n >= 2 \/ request.replaced # "None")
         /\ op' = "update")
          => /\ calls' =
                  << [slot |-> "leave",
                      fn |-> STATE_HANDLERS[AsUsize(current)].leave],
                     [slot |-> "enter",
                      fn |-> STATE_HANDLERS[AsUsize(request.target)].enter] >>
             /\ current' = request.target
      ]_vars

\* C17 (as claimed): with two threads, a step of the second thread changes
\* neither previous, current, next nor any first_update flag the first
\* thread observes, and the calls of game_state_update of the first thread
\* keep the first-update flag property: no call panics, the flag of the
\* state entered is true, the first steady-state call of a residency finds
\* the flag true and leaves it false, every later one finds and leaves it
\* false.
C17_ThreadConfinement ==
    [][ /\ thread' = "other"
            => UNCHANGED <<previous, current, next, first_update>>
        /\ thread' = "main" => run'.main.pc # "panicked"
        /\ (thread' = "main" /\ run.main.pc = "transition_borrowed")
            => Flag(first_update', current')
        /\ (thread' = "main" /\ run.main.pc = "steady_borrowed")
            => (run'.main.found <=> Updates = 0)
        /\ (thread' = "main" /\ run.main.pc = "steady_read")
            => ~Flag(first_update', current)
      ]_vars

\* C18: after every operation, a first_update flag that is false belongs to
\* the current state, and at least one steady-state call of
\* game_state_update was made in the present residency.
C18_OnlyCurrentFlagFalse ==
    \A state \in GameState :
        ~Flag(first_update, state) => (state = current /\ Updates >= 1)

\* A state that was updated and left has its flag true again while the
\* flag of the present state is false.
C18_Witness ==
    /\ Len(residencies) = 3
    /\ residencies[2].st # "None" /\ residencies[2].n = 1
    /\ current \notin {"None", residencies[2].st}
    /\ Updates >= 1
    /\ ~Flag(first_update, current)
    /\ Flag(first_update, residencies[2].st)

\* The callbacks of c, run in order from resident state res, respect the
\* residencies: update and leave callbacks belong to the resident state, a
\* leave ends the residency, and an enter callback runs only when the
\* residency before it has been ended by its leave.
RECURSIVE Bracketed(_, _)
Bracketed(res, c) ==
    IF c = <<>> THEN TRUE
    ELSE LET e == Head(c) IN
         IF e.slot = "update"
         THEN Owner(e.fn) = res /\ Bracketed(res, Tail(c))
         ELSE IF e.slot = "leave"
         THEN Owner(e.fn) = res /\ Bracketed("-", Tail(c))
         ELSE res = "-" /\ Bracketed(Owner(e.fn), Tail(c))

\* C15: the update and leave callbacks a call of game_state_update invokes
\* are those of the state entered last and not left since, and an enter
\* callback is invoked only after the leave callback of that state, so that
\* every enter(S) is followed by exactly one leave(S) before the next enter.
C15_LifecycleBracketing ==
    [][ op' = "update" => Bracketed(resident, calls') ]_vars

\* A real state, entered after two other residencies, of which the last
\* was of another real state, has been updated.
C15_Witness ==
    /\ op = "update"
    /\ Slots(calls) = <<"update">>
    /\ resident = current
    /\ current # "None"
    /\ Len(residencies) = 3
    /\ previous \notin {"None", current}
    /\ Owner(calls[1].fn) = resident

\* C19: a game_state_go(None) made by an external caller, an update or an
\* enter callback empties next even when a state X was pending there, and
\* the call of game_state_update that follows it invokes only the update
\* callback of the current state, leaves previous and current as they were
\* and leaves in next nothing but what that update callback asks for.
C19_NoneCancelsPending ==
    [][ /\ (op' = "go" /\ request'.target = "None") => next' = "None"
        /\ (/\ request.by \in {"ext", "update", "enter"}
            /\ ~request.applied
            /\ request.target = "None"
            /\ op' = "update")
            => /\ calls' =
                    << [slot |-> "update",
                        fn |-> STATE_HANDLERS[AsUsize(current)].update] >>
               /\ previous' = previous
               /\ current' = current
               /\ next' = IF Pending("update")' THEN request'.target ELSE "None"
      ]_vars

\* A pending state X, not the current one, was cancelled by an external
\* game_state_go(None), and the next call ran the update of the current
\* state.
C19_Witness ==
    /\ op = "update"
    /\ request.by = "ext" /\ ~request.applied
    /\ request.target = "None"
    /\ request.replaced \notin {"None", current}
    /\ current # "None"
    /\ resident = current
    /\ Slots(calls) = <<"update">>
    /\ next = "None"

\* C20: in the call of game_state_update that directly follows the one that
\* entered S: when the enter callback of S asked for a state T other than
\* None, the call invokes the leave callback of S and an enter callback, S
\* has had no update in that residency, and the state entered is T when
\* the leave callback of S asks for nothing; otherwise nothing is pending
\* and the call invokes the update callback of S and nothing else.
C20_ZeroUpdateResidency ==
    [][ (op = "update" /\ Slots(calls) = <<"leave", "enter">> /\ op' = "update")
          => IF Pending("enter") /\ request.target # "None"
             THEN /\ Slots(calls') = <<"leave", "enter">>
                  /\ calls'[1].fn = STATE_HANDLERS[AsUsize(current)].leave
                  /\ Updates = 0
                  /\ residencies'[Len(residencies') - 1] =
                        [st |-> current, n |-> 0]
                  /\ (\E er \in ReqSeqs : GameStateUpdate(<<>>, er, <<>>))
                       => /\ current' = request.target
                          /\ calls'[2].fn =
                               STATE_HANDLERS[AsUsize(request.target)].enter
             ELSE /\ next = "None"
                  /\ calls' =
                       << [slot |-> "update",
                           fn |-> STATE_HANDLERS[AsUsize(current)].update] >>
      ]_vars

\* A real state was entered and left without an update, on the request of
\* its own enter callback, for another real state.
C20_Witness ==
    /\ op = "update"
    /\ Slots(calls) = <<"leave", "enter">>
    /\ Len(residencies) = 3
    /\ previous \notin {"None", current}
    /\ residencies[2] = [st |-> previous, n |-> 0]
    /\ request.by = "enter" /\ request.applied
    /\ request.target = current
    /\ current # "None"

TypeOK ==
    /\ previous \in GameState
    /\ current \in GameState
    /\ next \in GameState
    /\ first_update \in [0 .. MaxState -> BOOLEAN]
    /\ op \in {"start", "init", "go", "update"}
    /\ borrow \in [0 .. MaxState -> -1 .. MaxBorrow]
    /\ \A t \in Threads :
          /\ run[t].pc \in {"idle", "panicked", "transition_borrowing",
                             "transition_borrowed", "steady_borrowing",
                             "steady_borrowed", "steady_read",
                             "dropping", "releasing"}
          /\ run[t].cell \in 0 .. MaxState
          /\ run[t].seen \in -1 .. MaxBorrow
          /\ run[t].found \in BOOLEAN
    /\ other.current \in GameState
    /\ thread \in Threads
    /\ request.by \in {"none", "init", "ext", "leave", "enter", "update"}
    /\ Len(residencies) \in 1 .. 3
====
